---- MODULE Spec2Model ----
(***************************************************************************)
(* A model of the query builder of src/src/query/Query.ts: the chain of    *)
(* where / order / limit / offset / eager-load directives a Query          *)
(* accumulates, the retrieval pipeline (all, select, get, first, find),    *)
(* revival from a normalized schema and the mutation pipeline              *)
(* (insert, saveElements, update, destroy, delete, flush) over the store   *)
(* of flat record maps the Connection holds.                               *)
(*                                                                         *)
(* The Query's collaborators (Connection, Model, Relation, the helpers of  *)
(* support/Utils) are not part of Query.ts; they are modelled from their   *)
(* contract in spec.md sections 3, 4, 6 and carry a "contract" remark.     *)
(***************************************************************************)
EXTENDS Integers, Sequences, FiniteSets, TLC

VARIABLES
    store,   \* entity name -> record map of that entity (Connection's state)
    query,   \* the Query object under construction / last used
    last     \* the most recent terminal call: its inputs and what it returned

vars == <<store, query, last>>

---------------------------------------------------------------------------
(* Bounds of the model.                                                    *)

\* primary keys of users and posts range over 1..MaxId
MaxId == 2
\* a query holds at most MaxWheres where clauses
MaxWheres == 2
\* a query holds at most MaxOrders order directives
MaxOrders == 1
\* limit() and offset() take values in 0..MaxTake
MaxTake == 2
\* withAllRecursive takes depths in 0..MaxDepth
MaxDepth == 2
\* a schema array handed to reviveMany holds at most MaxSchemas elements
MaxSchemas == 2
\* the composite-key entity holds at most MaxVotes records
MaxVotes == 1

\* JavaScript's null, as an attribute value (no attribute value is negative)
Null == -1

\* JavaScript's undefined: what reading a property the object lacks yields
Undefined == -2

\* the null item a single-model call returns when nothing matches
NullItem == [isNull |-> TRUE]

Ids == 1..MaxId
\* the attribute values records are written with
Vals == {0, 1}

Max(a, b) == IF a >= b THEN a ELSE b
Min(a, b) == IF a <= b THEN a ELSE b

\* the elements of a sequence
Range(s) == {s[i] : i \in DOMAIN s}

---------------------------------------------------------------------------
(* Model metadata (contract: spec.md section 6, "Model Metadata").         *)
(* Three models: users and posts with the single primary key "id", votes   *)
(* with the composite primary key [userId, postId].                        *)

Entities == {"users", "posts", "votes"}

\* the attribute (non-relation) fields of a model, in declaration order
AttrFields(entity) ==
    CASE entity = "users" -> <<"id", "a", "b">>
      [] entity = "posts" -> <<"id", "userId">>
      [] entity = "votes" -> <<"userId", "postId">>

\* the relation fields of a model, in declaration order
RelationFields(entity) ==
    CASE entity = "users" -> <<"posts", "friend">>
      [] entity = "posts" -> <<"author">>
      [] entity = "votes" -> <<>>

\* $fields(): every field name, attributes first, as the model declares them
Fields(entity) == AttrFields(entity) \o RelationFields(entity)

\* fields[name] instanceof Relation
IsRelation(entity, name) == name \in Range(RelationFields(entity))

\* $hasCompositeKey()
HasCompositeKey(entity) == entity = "votes"

\* $getKeyName(): a field name, or the list of field names of a composite key
KeyName(entity) ==
    IF HasCompositeKey(entity) THEN <<"userId", "postId">> ELSE "id"

\* the value a field takes when the record given to $newInstance lacks it:
\* users declares a and b as number(0), every other attribute as attr(null)
FieldDefault(entity, name) ==
    IF entity = "users" /\ name \in {"a", "b"} THEN 0 ELSE Null

\* $getIndexId(record): the store key of a record. The code spells it as a
\* string; it is represented by the number (or the pair of numbers) it spells.
\* A record without its key has the index id of null.
GetIndexId(entity, record) ==
    IF HasCompositeKey(entity)
    THEN <<IF "userId" \in DOMAIN record THEN record["userId"] ELSE Null,
           IF "postId" \in DOMAIN record THEN record["postId"] ELSE Null>>
    ELSE IF "id" \in DOMAIN record THEN record["id"] ELSE Null

\* $getRelation(name): the relation's kind, related entity and keys
\*   users.posts  = hasMany(Post, 'userId')     users.friend = belongsTo(User, 'b')
\*   posts.author = belongsTo(User, 'userId')
GetRelation(entity, name) ==
    CASE entity = "users" /\ name = "posts" ->
            [kind |-> "hasMany", related |-> "posts",
             foreignKey |-> "userId", localKey |-> "id"]
      [] entity = "users" /\ name = "friend" ->
            [kind |-> "belongsTo", related |-> "users",
             foreignKey |-> "b", localKey |-> "id"]
      [] entity = "posts" /\ name = "author" ->
            [kind |-> "belongsTo", related |-> "users",
             foreignKey |-> "userId", localKey |-> "id"]

\* no relation attribute populated
NoRelations == [n \in {} |-> NullItem]

\* $newInstance(record, { relations: false }): every attribute field of the
\* model, from the record when the record has it and at its default otherwise;
\* keys of the record that are no attribute of the model, relation keys
\* included, are not taken over, and no relation attribute is populated.
NewInstance(entity, record) ==
    [entity |-> entity,
     attrs |-> [f \in Range(AttrFields(entity)) |->
                   IF f \in DOMAIN record THEN record[f]
                   ELSE FieldDefault(entity, f)],
     rels |-> NoRelations]

\* $getAttributes(): the attribute fields of a model, relations left out
GetAttributes(model) == model.attrs

\* model[field]: the attribute of that name; undefined when the field is not
\* the name of an attribute (a list of names, as a composite key's, is none)
ModelField(model, field) ==
    IF field.k = "name" /\ field.v \in DOMAIN model.attrs
    THEN model.attrs[field.v]
    ELSE Undefined

---------------------------------------------------------------------------
(* Record maps: JavaScript objects keyed by index id. A record map is the  *)
(* sequence of its entries in the order `for (const id in map)` visits     *)
(* them: integer-like keys ascending, other keys in insertion order.       *)

EmptyMap == <<>>

MapKeys(map) == {map[i].key : i \in DOMAIN map}

MapHas(map, key) == key \in MapKeys(map)

MapPos(map, key) == CHOOSE i \in DOMAIN map : map[i].key = key

\* map[key], for a key the map has
MapGet(map, key) == map[MapPos(map, key)].rec

\* map[key] = rec
MapPut(entity, map, key, rec) ==
    IF MapHas(map, key)
    THEN [map EXCEPT ![MapPos(map, key)] = [key |-> key, rec |-> rec]]
    ELSE IF HasCompositeKey(entity)
         THEN Append(map, [key |-> key, rec |-> rec])
         ELSE LET before == Cardinality({i \in DOMAIN map : map[i].key < key})
              IN  SubSeq(map, 1, before) \o << [key |-> key, rec |-> rec] >>
                  \o SubSeq(map, before + 1, Len(map))

\* { ...map, ...other }
RECURSIVE MapMerge(_, _, _)
MapMerge(entity, map, other) ==
    IF other = <<>> THEN map
    ELSE MapMerge(entity, MapPut(entity, map, other[1].key, other[1].rec),
                  Tail(other))

\* the map without the given keys
RECURSIVE MapWithout(_, _)
MapWithout(map, keys) ==
    IF map = <<>> THEN <<>>
    ELSE IF map[1].key \in keys THEN MapWithout(Tail(map), keys)
         ELSE <<map[1]>> \o MapWithout(Tail(map), keys)

---------------------------------------------------------------------------
(* Connection (contract: spec.md section 6, "Connection").                 *)

\* get(): the entity's record map
ConnGet(st, entity) == st[entity]

\* find(id): the record under the index id, or nothing
ConnFind(st, entity, id) ==
    IF MapHas(st[entity], id) THEN MapGet(st[entity], id) ELSE NullItem

\* insert(records) and save(records): the records written under their keys,
\* the other records of the entity kept
ConnInsert(st, entity, records) ==
    [st EXCEPT ![entity] = MapMerge(entity, st[entity], records)]

ConnSave(st, entity, records) ==
    [st EXCEPT ![entity] = MapMerge(entity, st[entity], records)]

\* update(records): each record written under its key
ConnUpdate(st, entity, records) ==
    [st EXCEPT ![entity] = MapMerge(entity, st[entity], records)]

\* destroy(ids) and delete(ids): the records under the ids removed
ConnDestroy(st, entity, ids) ==
    [st EXCEPT ![entity] = MapWithout(st[entity], Range(ids))]

ConnDelete(st, entity, ids) ==
    [st EXCEPT ![entity] = MapWithout(st[entity], Range(ids))]

\* flush(): the entity's store region emptied
ConnFlush(st, entity) == [st EXCEPT ![entity] = EmptyMap]

---------------------------------------------------------------------------
(* The Query object (Query.ts lines 31-73).                                *)
(* A where clause is {field, value, boolean}; its field is a field name,   *)
(* a list of names or a closure on the model, its value a scalar, an       *)
(* array or a closure on the field's value. Closures are named: the model  *)
(* knows a few and applies them by name.                                   *)

FieldName(name) == [k |-> "name", v |-> name]
FieldNames(names) == [k |-> "names", v |-> names]
FieldFn(name) == [k |-> "fn", v |-> name]

Scalar(v) == [k |-> "val", v |-> v]
Array(vs) == [k |-> "array", v |-> vs]
ValueFn(name) == [k |-> "fn", v |-> name]

\* closures on a model, as where(field) and orderBy(field) take them
ModelFn(name, model) ==
    CASE name = "aAndB" -> model.attrs["a"] = 1 /\ model.attrs["b"] = 1
      [] name = "notA" -> model.attrs["a"] # 1

\* closures on a field value, as where(field, value) takes them
ValueFnApply(name, value) ==
    CASE name = "atLeast1" -> value >= 1
      [] name = "isZero" -> value = 0

\* closures an orderBy takes: the model's sort key
OrderFn(name, model) ==
    CASE name = "aPlusB" -> model.attrs["a"] + model.attrs["b"]

\* new Query(database, model)
NewQueryObject(entity) ==
    [model |-> entity, wheres |-> <<>>, orders |-> <<>>,
     take |-> Null, skip |-> 0, eagerLoad |-> <<>>]

where(q, field, value) ==
    [q EXCEPT !.wheres = Append(@, [field |-> field, value |-> value,
                                    boolean |-> "and"])]

whereIn(q, field, values) ==
    [q EXCEPT !.wheres = Append(@, [field |-> FieldName(field),
                                    value |-> Array(values),
                                    boolean |-> "and"])]

orWhere(q, field, value) ==
    [q EXCEPT !.wheres = Append(@, [field |-> field, value |-> value,
                                    boolean |-> "or"])]

\* the key name as where() receives it: a name, or a composite key's names
KeyField(entity) ==
    IF HasCompositeKey(entity) THEN FieldNames(KeyName(entity))
    ELSE FieldName(KeyName(entity))

whereId(q, ids) == where(q, KeyField(q.model), ids)

orderBy(q, field, direction) ==
    [q EXCEPT !.orders = Append(@, [field |-> field, direction |-> direction])]

limit(q, value) == [q EXCEPT !.take = value]

offset(q, value) == [q EXCEPT !.skip = value]

\* this.eagerLoad[name] = callback: a name already registered keeps its place
\* and takes the new callback, a new name goes last
with(q, name, callback) ==
    IF \E i \in DOMAIN q.eagerLoad : q.eagerLoad[i].name = name
    THEN [q EXCEPT !.eagerLoad =
             [i \in DOMAIN @ |-> IF @[i].name = name
                                 THEN [name |-> name, callback |-> callback]
                                 ELSE @[i]]]
    ELSE [q EXCEPT !.eagerLoad =
             Append(@, [name |-> name, callback |-> callback])]

\* the loop of withAll over the model's fields
RECURSIVE withAllFrom(_, _, _)
withAllFrom(q, fields, callback) ==
    IF fields = <<>> THEN q
    ELSE withAllFrom(IF IsRelation(q.model, fields[1])
                     THEN with(q, fields[1], callback) ELSE q,
                     Tail(fields), callback)

withAll(q, callback) == withAllFrom(q, Fields(q.model), callback)

\* the callback withAllRecursive(depth) registers
RecursiveCallback(depth) == [k |-> "recursive", v |-> depth]

withAllRecursive(q, depth) == withAll(q, RecursiveCallback(depth))

\* the callback with() registers by default
NoopCallback == [k |-> "noop", v |-> 0]

\* a callback that narrows the sub-query by a where clause on a field
WhereCallback(field, value) == [k |-> "where", v |-> <<field, value>>]

\* the recursive callback with its guard off by one (depth >= 0)
ApplyCallback_OneLevelMore(callback, q) ==
    CASE callback.k = "noop" -> q
      [] callback.k = "where" ->
            where(q, FieldName(callback.v[1]), Scalar(callback.v[2]))
      [] callback.k = "recursive" ->
            IF callback.v >= 0 THEN withAllRecursive(q, callback.v - 1) ELSE q

\* constraints(query): the callback applied to the sub-query
ApplyCallback(callback, q) ==
    CASE callback.k = "noop" -> q
      [] callback.k = "where" ->
            where(q, FieldName(callback.v[1]), Scalar(callback.v[2]))
      [] callback.k = "recursive" ->
            IF callback.v > 0 THEN withAllRecursive(q, callback.v - 1) ELSE q

---------------------------------------------------------------------------
(* Retrieval (Query.ts lines 209-347).                                     *)

hydrate(q, record) == NewInstance(q.model, record)

data(st, q) == ConnGet(st, q.model)

all(st, q) ==
    LET records == ConnGet(st, q.model)
    IN  [i \in DOMAIN records |-> hydrate(q, records[i].rec)]

\* whereComparator without the array rule: an array value is compared to the
\* field by ===, which no field value satisfies
whereComparator_NoArrayRule(model, w) ==
    IF w.field.k = "fn" THEN ModelFn(w.field.v, model)
    ELSE IF w.value.k = "array" THEN FALSE
         ELSE IF w.value.k = "fn"
              THEN ValueFnApply(w.value.v, ModelField(model, w.field))
              ELSE ModelField(model, w.field) = w.value.v

whereComparator(model, w) ==
    IF w.field.k = "fn" THEN ModelFn(w.field.v, model)
    ELSE IF w.value.k = "array"
         THEN ModelField(model, w.field) \in Range(w.value.v)
         ELSE IF w.value.k = "fn"
              THEN ValueFnApply(w.value.v, ModelField(model, w.field))
              ELSE ModelField(model, w.field) = w.value.v

\* groupBy(wheres, where => where.boolean)[key]: the clauses of that boolean,
\* in order; no entry (an empty list here) when no clause has it
groupBy(wheres, key) ==
    LET Has(w) == w.boolean = key IN SelectSeq(wheres, Has)

\* getWhereComparator that takes an absent group for an empty one: every()
\* of no and-clause is pushed as true
getWhereComparator_AbsentAndIsTrue(q, model) ==
    LET and == groupBy(q.wheres, "and")
        or == groupBy(q.wheres, "or")
        results ==
            << \A i \in DOMAIN and : whereComparator(model, and[i]) >>
            \o
            (IF or # <<>>
             THEN << \E i \in DOMAIN or : whereComparator(model, or[i]) >>
             ELSE <<>>)
    IN  TRUE \in Range(results)

getWhereComparator(q, model) ==
    LET and == groupBy(q.wheres, "and")
        or == groupBy(q.wheres, "or")
        results ==
            (IF and # <<>>
             THEN << \A i \in DOMAIN and : whereComparator(model, and[i]) >>
             ELSE <<>>)
            \o
            (IF or # <<>>
             THEN << \E i \in DOMAIN or : whereComparator(model, or[i]) >>
             ELSE <<>>)
    IN  TRUE \in Range(results)

filterWhere(q, models) ==
    IF q.wheres = <<>> THEN models
    ELSE LET comparator(model) == getWhereComparator(q, model)
         IN  SelectSeq(models, comparator)

\* compareAscending of Utils' orderBy: -1, 0 or 1; null sorts after numbers
compareAscending(value, other) ==
    IF value = other THEN 0
    ELSE IF value < 0 THEN 1
    ELSE IF other < 0 THEN -1
    ELSE IF value > other THEN 1 ELSE -1

\* the sort key of a model for one order directive
Criterion(order, model) ==
    IF order.field.k = "fn" THEN OrderFn(order.field.v, model)
    ELSE ModelField(model, order.field)

\* compareMultiple of Utils' orderBy: the first directive that tells the two
\* models apart decides, by its direction; the original position otherwise
RECURSIVE compareMultiple(_, _, _, _, _)
compareMultiple(models, orders, i, j, n) ==
    IF n > Len(orders) THEN i - j
    ELSE LET result == compareAscending(Criterion(orders[n], models[i]),
                                        Criterion(orders[n], models[j]))
         IN  IF result # 0
             THEN IF orders[n].direction = "desc" THEN 0 - result ELSE result
             ELSE compareMultiple(models, orders, i, j, n + 1)

\* orderBy(models, fields, directions) of Utils: a stable multi-key sort
SortBy(models, orders) ==
    LET Before(i, j) == compareMultiple(models, orders, i, j, 1) < 0
        Rank(i) == Cardinality({j \in DOMAIN models : Before(j, i)})
    IN  [p \in DOMAIN models |->
            models[CHOOSE i \in DOMAIN models : Rank(i) = p - 1]]

filterOrder(q, models) ==
    IF Len(q.orders) = 0 THEN models ELSE SortBy(models, q.orders)

\* Array.prototype.slice(start, end) for start, end >= 0
Slice(s, start, end) ==
    LET from == Min(start, Len(s))
        to == Min(end, Len(s))
    IN  IF from >= to THEN <<>> ELSE SubSeq(s, from + 1, to)

filterLimit(q, models) ==
    IF q.take # Null
    THEN Slice(models, q.skip, q.skip + q.take)
    ELSE Slice(models, q.skip, Len(models))

\* select with the limit applied before the ordering
select_LimitFirst(st, q) ==
    filterOrder(q, filterLimit(q, filterWhere(q, all(st, q))))

select(st, q) == filterLimit(q, filterOrder(q, filterWhere(q, all(st, q))))

---------------------------------------------------------------------------
(* Relations (contract: spec.md sections 4.4 and 6, "Relation").           *)

\* the values of an attribute over a list of models
GetKeys(models, key) == [i \in DOMAIN models |-> models[i].attrs[key]]

\* addEagerConstraints(query, models): hasMany narrows the related records to
\* those whose foreign key is a parent's key, belongsTo to those whose key is
\* a parent's foreign key
AddEagerConstraints(relation, q, models) ==
    IF relation.kind = "hasMany"
    THEN whereIn(q, relation.foreignKey, GetKeys(models, relation.localKey))
    ELSE whereIn(q, relation.localKey, GetKeys(models, relation.foreignKey))

\* model[name] = related
SetRelation(model, name, related) ==
    [model EXCEPT !.rels = [n \in (DOMAIN @) \cup {name} |->
                               IF n = name THEN related ELSE @[n]]]

\* match(name, models, results): each parent's relation attribute set to its
\* related models (hasMany: a list, empty when none) or model (belongsTo:
\* the null item when none)
Match(relation, name, models, results) ==
    [i \in DOMAIN models |->
        IF relation.kind = "hasMany"
        THEN LET Mine(r) == r.attrs[relation.foreignKey]
                                = models[i].attrs[relation.localKey]
             IN  SetRelation(models[i], name, SelectSeq(results, Mine))
        ELSE LET owners == {j \in DOMAIN results :
                               results[j].attrs[relation.localKey]
                                   = models[i].attrs[relation.foreignKey]}
             IN  SetRelation(models[i], name,
                     IF owners = {} THEN NullItem
                     ELSE results[CHOOSE j \in owners :
                                      \A o \in owners : o <= j])]

\* newQueryForRelation(relation)
newQueryForRelation(relation) == NewQueryObject(relation.related)

---------------------------------------------------------------------------
(* get and eager loading (Query.ts lines 232-240, 359-388).                *)

RECURSIVE get(_, _)
RECURSIVE eagerLoadFrom(_, _, _, _)

\* relation.getEager(query) runs the sub-query
eagerLoadRelation(st, q, models, name, constraints) ==
    LET relation == GetRelation(q.model, name)
        sub == ApplyCallback(constraints,
                   AddEagerConstraints(relation,
                       newQueryForRelation(relation), models))
    IN  Match(relation, name, models, get(st, sub))

\* eagerLoadRelations that loads every relation onto the models as select
\* returned them and keeps the last one's
eagerLoadRelations_LastOnly(st, q, models) ==
    IF q.eagerLoad = <<>> THEN models
    ELSE eagerLoadRelation(st, q, models,
                           q.eagerLoad[Len(q.eagerLoad)].name,
                           q.eagerLoad[Len(q.eagerLoad)].callback)

\* the loop of eagerLoadRelations over the registered names, in the order
\* `for (const name in this.eagerLoad)` visits them
eagerLoadFrom(st, q, models, eagerLoad) ==
    IF eagerLoad = <<>> THEN models
    ELSE eagerLoadFrom(st, q,
             eagerLoadRelation(st, q, models, eagerLoad[1].name,
                               eagerLoad[1].callback),
             Tail(eagerLoad))

eagerLoadRelations(st, q, models) == eagerLoadFrom(st, q, models, q.eagerLoad)

get(st, q) ==
    LET models == select(st, q)
    IN  IF models # <<>> THEN eagerLoadRelations(st, q, models) ELSE models

\* what a terminal call leaves behind: the store, the Query object, what it
\* returned and whether it raised
Outcome(st, q, result, raised) ==
    [st |-> st, q |-> q, result |-> result, raised |-> raised]

\* this.limit(1).get()[0] ?? null
first(st, q) ==
    LET q1 == limit(q, 1)
        models == get(st, q1)
    IN  Outcome(st, q1, IF models # <<>> THEN models[1] ELSE NullItem, FALSE)

findIn(st, q, ids) ==
    LET q1 == whereId(q, Array(ids))
    IN  Outcome(st, q1, get(st, q1), FALSE)

\* find(ids): ids is [k |-> "array", ...] for an array, a scalar otherwise
find(st, q, ids) ==
    IF ids.k = "array" THEN findIn(st, q, ids.v)
    ELSE first(st, whereId(q, ids))

---------------------------------------------------------------------------
(* Revival from a normalized schema (Query.ts lines 401-462).              *)
(* A schema element is a JavaScript object: the sequence of its            *)
(* [key, value] entries in the order `for (const key in schema)` visits    *)
(* them. A value is a scalar, null, a nested element or an array of        *)
(* elements.                                                               *)

SchemaVal(v) == [k |-> "val", v |-> v]
SchemaNull == [k |-> "null", v |-> 0]
SchemaOne(element) == [k |-> "one", v |-> element]
SchemaMany(elements) == [k |-> "many", v |-> elements]

\* the scalar entries of a schema element, as a record
SchemaRecord(schema) ==
    LET scalars == {i \in DOMAIN schema : schema[i].value.k = "val"}
    IN  [f \in {schema[i].key : i \in scalars} |->
            schema[CHOOSE i \in scalars : schema[i].key = f].value.v]

\* !relatedSchema: null and 0 are falsy, an object or an array (an empty one
\* too) is not
Falsy(value) ==
    value.k = "null" \/ (value.k = "val" /\ value.v = 0)

RECURSIVE reviveOne(_, _, _)
RECURSIVE reviveManyFrom(_, _, _)
RECURSIVE reviveRelationsFrom(_, _, _, _)

\* the reduce of reviveMany: the revived models, the null items left out
reviveManyFrom(st, q, schema) ==
    IF schema = <<>> THEN <<>>
    ELSE LET model == reviveOne(st, q, schema[1])
         IN  (IF model # NullItem THEN <<model>> ELSE <<>>)
             \o reviveManyFrom(st, q, Tail(schema))

reviveMany(st, q, schema) == reviveManyFrom(st, q, schema)

\* the loop of reviveRelations over the schema's keys from the n-th on: a key
\* that is no relation is skipped; a relation key with a falsy value ends the
\* loop (the `return`)
reviveRelationsFrom(st, q, model, rest) ==
    IF rest = <<>> THEN model
    ELSE IF ~IsRelation(q.model, rest[1].key)
         THEN reviveRelationsFrom(st, q, model, Tail(rest))
         ELSE IF Falsy(rest[1].value) THEN model
              ELSE LET sub == newQueryForRelation(
                                  GetRelation(q.model, rest[1].key))
                       related ==
                           IF rest[1].value.k = "many"
                           THEN reviveMany(st, sub, rest[1].value.v)
                           ELSE reviveOne(st, sub, rest[1].value.v)
                   IN  reviveRelationsFrom(st, q,
                           SetRelation(model, rest[1].key, related),
                           Tail(rest))

reviveRelations(st, q, model, schema) ==
    reviveRelationsFrom(st, q, model, schema)

\* reviveOne that hydrates the schema's payload instead of the stored record
reviveOne_FromPayload(st, q, schema) ==
    LET id == GetIndexId(q.model, SchemaRecord(schema))
        item == ConnFind(st, q.model, id)
    IN  IF item = NullItem THEN NullItem
        ELSE reviveRelations(st, q, hydrate(q, SchemaRecord(schema)), schema)

reviveOne(st, q, schema) ==
    LET id == GetIndexId(q.model, SchemaRecord(schema))
        item == ConnFind(st, q.model, id)
    IN  IF item = NullItem THEN NullItem
        ELSE reviveRelations(st, q, hydrate(q, item), schema)

---------------------------------------------------------------------------
(* The mutation pipeline (Query.ts lines 496-652).                         *)

\* { ...base, ...over }
Spread(base, over) ==
    [f \in (DOMAIN base) \cup (DOMAIN over) |->
        IF f \in DOMAIN over THEN over[f] ELSE base[f]]

\* compile(models): the models' attributes keyed by their index ids
RECURSIVE compileFrom(_, _, _)
compileFrom(q, models, records) ==
    IF models = <<>> THEN records
    ELSE compileFrom(q, Tail(models),
             MapPut(q.model, records,
                    GetIndexId(q.model, GetAttributes(models[1])),
                    GetAttributes(models[1])))

compile(q, models) == compileFrom(q, models, EmptyMap)

getIndexIdsFromCollection(q, models) ==
    [i \in DOMAIN models |-> GetIndexId(q.model, GetAttributes(models[i]))]

\* saveElements without the merge: the incoming record alone is hydrated
RECURSIVE saveElementsFrom_NoMerge(_, _, _, _)
saveElementsFrom_NoMerge(q, currentData, elements, newData) ==
    IF elements = <<>> THEN newData
    ELSE saveElementsFrom_NoMerge(q, currentData, Tail(elements),
             MapPut(q.model, newData, elements[1].key,
                    GetAttributes(hydrate(q, elements[1].rec))))

\* the loop of saveElements over the incoming elements
RECURSIVE saveElementsFrom(_, _, _, _)
saveElementsFrom(q, currentData, elements, newData) ==
    IF elements = <<>> THEN newData
    ELSE LET id == elements[1].key
             record == elements[1].rec
             attributes ==
                 IF MapHas(currentData, id)
                 THEN GetAttributes(hydrate(q,
                          Spread(MapGet(currentData, id), record)))
                 ELSE GetAttributes(hydrate(q, record))
         IN  saveElementsFrom(q, currentData, Tail(elements),
                 MapPut(q.model, newData, id, attributes))

saveElements(st, q, elements) ==
    LET newData == saveElementsFrom(q, data(st, q), elements, EmptyMap)
    IN  Outcome(ConnSave(st, q.model, newData), q, NullItem, FALSE)

\* insert(records), for an array of records
insert(st, q, records) ==
    LET models == [i \in DOMAIN records |-> hydrate(q, records[i])]
    IN  Outcome(ConnInsert(st, q.model, compile(q, models)), q, models, FALSE)

update(st, q, record) ==
    LET models == get(st, q)
        newModels == [i \in DOMAIN models |->
                         hydrate(q, Spread(GetAttributes(models[i]), record))]
    IN  IF models = <<>> THEN Outcome(st, q, <<>>, FALSE)
        ELSE Outcome(ConnUpdate(st, q.model, compile(q, newModels)), q,
                     newModels, FALSE)

destroyOne(st, q, id) ==
    LET found == find(st, q, id)
    IN  IF found.result = NullItem THEN found
        ELSE [found EXCEPT !.st =
                 ConnDestroy(st, q.model,
                     <<GetIndexId(q.model, GetAttributes(found.result))>>)]

destroyMany(st, q, ids) ==
    LET found == find(st, q, ids)
    IN  IF found.result = <<>> THEN found
        ELSE [found EXCEPT !.st =
                 ConnDestroy(st, q.model,
                     getIndexIdsFromCollection(q, found.result))]

\* destroy without its assertion
destroy_NoAssert(st, q, ids) ==
    IF ids.k = "array" THEN destroyMany(st, q, ids)
    ELSE destroyOne(st, q, ids)

\* assert(!this.model.$hasCompositeKey(), ...) raises before anything else
destroy(st, q, ids) ==
    IF HasCompositeKey(q.model) THEN Outcome(st, q, NullItem, TRUE)
    ELSE IF ids.k = "array" THEN destroyMany(st, q, ids)
         ELSE destroyOne(st, q, ids)

delete(st, q) ==
    LET models == get(st, q)
    IN  IF models = <<>> THEN Outcome(st, q, <<>>, FALSE)
        ELSE Outcome(ConnDelete(st, q.model,
                         getIndexIdsFromCollection(q, models)),
                     q, models, FALSE)

\* flush that removes the matched models only, as delete does
flush_Matched(st, q) == delete(st, q)

flush(st, q) ==
    LET models == get(st, q)
    IN  Outcome(ConnFlush(st, q.model), q, models, FALSE)

---------------------------------------------------------------------------
(* The state machine. A Query object is built for one logical query: a     *)
(* builder call changes it, one terminal call runs it against the store    *)
(* and is recorded, inputs and result, in `last`; the next query is a new  *)
(* Query object (spec.md section 3, "Lifecycle").                          *)

NoCall == [op |-> "none"]

Init ==
    /\ store = [e \in Entities |-> EmptyMap]
    /\ query = NewQueryObject("users")
    /\ last = NoCall

\* a builder call: the Query object changes, nothing else does
Build(q) ==
    /\ last = NoCall
    /\ query' = q
    /\ last' = NoCall
    /\ UNCHANGED store

\* a terminal call and what it left behind
Call(op, arg, out) ==
    /\ last = NoCall
    /\ store' = out.st
    /\ query' = out.q
    /\ last' = [op |-> op, arg |-> arg, query |-> query, pre |-> store,
                result |-> out.result, raised |-> out.raised]

\* the number of chain directives the Query object holds
ChainLen(q) ==
    Len(q.wheres) + Len(q.orders) + Len(q.eagerLoad)
    + (IF q.take # Null THEN 1 ELSE 0) + (IF q.skip # 0 THEN 1 ELSE 0)

NewQuery(entity) ==
    /\ query' = NewQueryObject(entity)
    /\ last' = NoCall
    /\ UNCHANGED store

Where(field, value) ==
    /\ Len(query.wheres) < MaxWheres
    /\ Build(where(query, field, value))

WhereIn(field, values) ==
    /\ Len(query.wheres) < MaxWheres
    /\ Build(whereIn(query, field, values))

OrWhere(field, value) ==
    /\ Len(query.wheres) < MaxWheres
    /\ Build(orWhere(query, field, value))

OrderBy(field, direction) ==
    /\ Len(query.orders) < MaxOrders
    /\ Build(orderBy(query, field, direction))

Limit(value) == Build(limit(query, value))

Offset(value) == Build(offset(query, value))

With(name, callback) ==
    /\ IsRelation(query.model, name)
    /\ Build(with(query, name, callback))

WithAllRecursive(depth) == Build(withAllRecursive(query, depth))

Get == Call("get", 0, Outcome(store, query, get(store, query), FALSE))

Find(ids) ==
    /\ Len(query.wheres) < MaxWheres
    /\ Call("find", ids, find(store, query, ids))

ReviveOne(schema) ==
    Call("reviveOne", schema,
         Outcome(store, query, reviveOne(store, query, schema), FALSE))

ReviveMany(schema) ==
    Call("reviveMany", schema,
         Outcome(store, query, reviveMany(store, query, schema), FALSE))

Insert(records) == Call("insert", records, insert(store, query, records))

SaveElements(elements) ==
    Call("saveElements", elements, saveElements(store, query, elements))

Update(record) == Call("update", record, update(store, query, record))

Destroy(ids) ==
    /\ Len(query.wheres) < MaxWheres
    /\ Call("destroy", ids, destroy(store, query, ids))

Delete == Call("delete", 0, delete(store, query))

Flush == Call("flush", 0, flush(store, query))

---------------------------------------------------------------------------
(* The inputs the calls are given.                                         *)

\* the elements of a set of numbers, ascending
SortedSeq(S) ==
    [p \in 1..Cardinality(S) |->
        CHOOSE x \in S : Cardinality({y \in S : y < x}) = p - 1]

\* complete user records
UserRecords == [id : Ids, a : Vals, b : Vals]

\* vote records; their composite key is [userId, postId]
VoteRecords == [userId : {1}, postId : Ids]

\* post records
PostRecords == [id : Ids, userId : Ids]

\* id arrays as find and destroy take them: ids of the store's range and one
\* past it, the empty array, and one out of order
IdArrays == {SortedSeq(S) : S \in SUBSET (1..(MaxId + 1))} \cup {<<2, 1>>}

\* what find and destroy take: an id or an array of ids
IdArgs == {Scalar(i) : i \in 1..(MaxId + 1)} \cup {Array(ids) : ids \in IdArrays}

\* a user record with its id and any of the keys a, b and x (x is no field
\* of the model)
PartialUsers(id) ==
    LET optional == UNION {[K -> Vals] : K \in SUBSET {"a", "b"}}
                    \cup {[x |-> 1], [b |-> 1, x |-> 1]}
    IN  {Spread([id |-> id], p) : p \in optional}

\* element maps as saveElements takes them: keyed by the records' ids
ElementMaps ==
    UNION {
        LET keys == SortedSeq(S)
        IN  {[i \in DOMAIN keys |-> [key |-> keys[i], rec |-> pick[keys[i]]]] :
                pick \in [S -> UNION {PartialUsers(id) : id \in S}]}
        : S \in (SUBSET Ids) \ {{}} }

\* element maps whose records carry the key they are filed under
KeyedElementMaps ==
    {m \in ElementMaps : \A i \in DOMAIN m : m[i].rec["id"] = m[i].key}

\* records update takes: any of the keys id and a
UpdateRecords == UNION {[K -> Ids] : K \in {{"id"}, {}}}
                 \cup {Spread(r, [a |-> v]) :
                          r \in UNION {[K -> Ids] : K \in {{"id"}, {}}},
                          v \in Vals}

---------------------------------------------------------------------------
(* The mutation pipeline over users and votes, with a short query chain.   *)

\* a query holds at most MaxChain directives in this specification
MaxChain == 2

WriteChain ==
    /\ query.model = "users"
    /\ ChainLen(query) < MaxChain
    /\ \/ Where(FieldName("a"), Scalar(1))
       \/ WhereIn("id", <<1, 3>>)
       \/ OrderBy(FieldName("id"), "desc")
       \/ \E n \in 1..MaxTake : Limit(n)
       \/ \E n \in 1..MaxTake : Offset(n)

WriteInsert ==
    \/ /\ query.model = "users"
       /\ \E r \in UserRecords : Insert(<<r>>)
    \/ /\ query.model = "votes"
       /\ Len(store["votes"]) < MaxVotes
       /\ \E r \in VoteRecords : Insert(<<r>>)

WriteSave ==
    /\ query.model = "users"
    /\ ChainLen(query) = 0
    /\ \E m \in KeyedElementMaps : SaveElements(m)

WriteUpdate ==
    /\ query.model = "users"
    /\ \E r \in UpdateRecords : Update(r)

Next ==
    \/ \E e \in {"users", "votes"} : NewQuery(e)
    \/ WriteChain
    \/ WriteInsert
    \/ WriteSave
    \/ WriteUpdate
    \/ \E ids \in IdArgs : Destroy(ids)
    \/ Delete
    \/ Flush
    \/ Get

Spec == Init /\ [][Next]_vars

---------------------------------------------------------------------------
(* Claims about the mutation pipeline, under Spec.                         *)

\* the record the store holds under a key of the called query's entity
Stored(st, key) == MapGet(st[last.query.model], key)

\* C3 as stated: after saveElements(elements), the record persisted for an
\* incoming element whose id was in the store is the stored record overlaid
\* with the incoming one, and for an id not in the store it is the incoming
\* record as it came.
C3_SavePersistsOverlayAsIs ==
    last.op = "saveElements" =>
        \A i \in DOMAIN last.arg :
            LET id == last.arg[i].key
                record == last.arg[i].rec
                current == last.pre[last.query.model]
            IN  /\ MapHas(store[last.query.model], id)
                /\ Stored(store, id) =
                       IF MapHas(current, id)
                       THEN Spread(MapGet(current, id), record)
                       ELSE record

\* C3 as amended: after saveElements(elements), the record persisted for an
\* incoming element holds exactly the model's attribute fields; each takes the
\* incoming value when the incoming element has the field, else the stored
\* value when the id was in the store, else the field's default. Keys of the
\* incoming element that are no attribute of the model are not persisted, and
\* the records of the entity no element names are kept as they were.
C3_SaveMergesAttributes ==
    last.op = "saveElements" =>
        LET entity == last.query.model
            current == last.pre[entity]
            incoming == {last.arg[i].key : i \in DOMAIN last.arg}
        IN  /\ ~last.raised
            /\ MapKeys(store[entity]) = MapKeys(current) \cup incoming
            /\ \A e \in Entities \ {entity} : store[e] = last.pre[e]
            /\ \A key \in MapKeys(current) \ incoming :
                   Stored(store, key) = MapGet(current, key)
            /\ \A i \in DOMAIN last.arg :
                   LET id == last.arg[i].key
                       record == last.arg[i].rec
                       persisted == Stored(store, id)
                   IN  /\ DOMAIN persisted = Range(AttrFields(entity))
                       /\ \A f \in DOMAIN persisted :
                              persisted[f] =
                                  IF f \in DOMAIN record THEN record[f]
                                  ELSE IF MapHas(current, id)
                                       THEN MapGet(current, id)[f]
                                       ELSE FieldDefault(entity, f)

\* C3's case: an element for a stored id that lacks a field the stored record
\* has a value for and changes another (stored {id:1, a:1, b:0}, incoming
\* {id:1, b:1}, persisted {id:1, a:1, b:1})
C3_Witness ==
    /\ last.op = "saveElements"
    /\ last.query.model = "users"
    /\ MapHas(last.pre["users"], 1)
    /\ MapGet(last.pre["users"], 1) = [id |-> 1, a |-> 1, b |-> 0]
    /\ last.arg = << [key |-> 1, rec |-> [id |-> 1, b |-> 1]] >>
    /\ MapGet(store["users"], 1) = [id |-> 1, a |-> 1, b |-> 1]

\* C4: destroy(idOrIds) on a model with a composite primary key raises, and
\* the store after the call is the store before it, for the single-id and the
\* array form alike.
C4_DestroyCompositeRaises ==
    (last.op = "destroy" /\ HasCompositeKey(last.query.model)) =>
        /\ last.raised
        /\ store = last.pre

\* C4's case: destroy with an array of ids on the composite-key model while
\* the store holds a record of it
C4_Witness ==
    /\ last.op = "destroy"
    /\ last.query.model = "votes"
    /\ last.arg = Array(<<1, 2>>)
    /\ last.pre["votes"] # EmptyMap
    /\ last.raised
    /\ store = last.pre

\* C5: flush() returns the models the query chain matched in the store as it
\* was before the flush, and empties the entity's whole store region whatever
\* the chain matched, so that all() on the entity returns nothing.
C5_FlushReturnsMatchedAndEmpties ==
    last.op = "flush" =>
        /\ ~last.raised
        /\ last.result = get(last.pre, last.query)
        /\ store[last.query.model] = EmptyMap
        /\ all(store, NewQueryObject(last.query.model)) = <<>>

\* C5's case: a flush whose chain matched some of the entity's records and
\* not others
C5_Witness ==
    /\ last.op = "flush"
    /\ last.query.wheres # <<>>
    /\ last.result # <<>>
    /\ Len(last.result) < Len(last.pre[last.query.model])
    /\ store[last.query.model] = EmptyMap

\* the models a call's query chain matched in the store before the call
Matched == get(last.pre, last.query)

\* C6 as stated: update(record) on a chain that matches nothing returns an
\* empty collection and leaves the store as it was; on a chain that matches,
\* the result is the matched models overlaid with record, each of them is a
\* record of the store afterwards, and every record of the entity the chain
\* did not match is left as it was.
C6_UpdateMergesMatchedOnly ==
    last.op = "update" =>
        LET entity == last.query.model
            matchedKeys == {GetIndexId(entity, GetAttributes(Matched[i])) :
                               i \in DOMAIN Matched}
            merged == [i \in DOMAIN Matched |->
                          Spread(GetAttributes(Matched[i]), last.arg)]
        IN  /\ ~last.raised
            /\ Matched = <<>> => (last.result = <<>> /\ store = last.pre)
            /\ Matched # <<>> =>
                  /\ DOMAIN last.result = DOMAIN Matched
                  /\ \A i \in DOMAIN Matched :
                         /\ GetAttributes(last.result[i]) = merged[i]
                         /\ \E key \in MapKeys(store[entity]) :
                                Stored(store, key) = merged[i]
                  /\ \A key \in MapKeys(last.pre[entity]) \ matchedKeys :
                         /\ MapHas(store[entity], key)
                         /\ Stored(store, key) = MapGet(last.pre[entity], key)

---------------------------------------------------------------------------
(* Retrieval with a full chain (where, order, limit, offset) over users    *)
(* with ids one past MaxId.                                                *)

SelectRecords == [id : 1..(MaxId + 1), a : Vals, b : Vals]

SelectInsert ==
    /\ ChainLen(query) = 0
    /\ \E r \in SelectRecords : Insert(<<r>>)

SelectWhere ==
    \/ Where(FieldName("a"), Scalar(1))
    \/ Where(FieldFn("aAndB"), Scalar(Undefined))
    \/ WhereIn("id", <<1, 3>>)

SelectOrder ==
    \/ \E d \in {"asc", "desc"} : OrderBy(FieldName("id"), d)
    \/ \E d \in {"asc", "desc"} : OrderBy(FieldName("a"), d)
    \/ OrderBy(FieldFn("aPlusB"), "desc")

SelectPage ==
    \/ \E n \in 0..MaxTake : Limit(n)
    \/ \E n \in 0..MaxTake : Offset(n)

NextSelect ==
    \/ NewQuery("users")
    \/ SelectInsert
    \/ SelectWhere
    \/ SelectOrder
    \/ SelectPage
    \/ Get

SpecSelect == Init /\ [][NextSelect]_vars

\* the where-matching models of the store before the call, ordered
Ordered == filterOrder(last.query, filterWhere(last.query,
                                               all(last.pre, last.query)))

\* C2: select() applies the where filter, then the ordering, then limit and
\* offset: the result of get() on a chain without eager loads is the ordered
\* list of where-matching models from position skip on, cut to take models
\* when a limit is set. The ordered list holds the where-matching models, each
\* before every model the order directives rank after it.
C2_SelectFiltersOrdersThenPages ==
    (last.op = "get" /\ last.query.eagerLoad = <<>>) =>
        LET q == last.query
            upto == IF q.take = Null THEN Len(Ordered)
                    ELSE Min(Len(Ordered), q.skip + q.take)
            n == Max(0, upto - q.skip)
            matching == {m \in Range(all(last.pre, q)) :
                            q.wheres = <<>> \/ getWhereComparator(q, m)}
        IN  /\ last.result = [i \in 1..n |-> Ordered[q.skip + i]]
            /\ Range(Ordered) = matching
            /\ Len(Ordered) = Cardinality(matching)
            /\ \A i, j \in DOMAIN Ordered :
                   (i < j /\ q.orders # <<>>) =>
                       compareAscending(Criterion(q.orders[1], Ordered[i]),
                                        Criterion(q.orders[1], Ordered[j]))
                           * (IF q.orders[1].direction = "desc" THEN -1 ELSE 1)
                       <= 0
            /\ store = last.pre

\* C2's case: users 1..3, orderBy('id', 'desc').limit(1).offset(1) returns the
\* user with id 2
C2_Witness ==
    /\ last.op = "get"
    /\ Len(last.pre["users"]) = 3
    /\ last.query.wheres = <<>>
    /\ last.query.orders = << [field |-> FieldName("id"), direction |-> "desc"] >>
    /\ last.query.take = 1
    /\ last.query.skip = 1
    /\ Len(last.result) = 1
    /\ last.result[1].attrs["id"] = 2

---------------------------------------------------------------------------
(* Where clauses of every kind, and find, over users.                      *)

\* the field and value a where() or orWhere() call is given
WhereArgs ==
    { <<FieldName("a"), Scalar(1)>>,
      <<FieldName("b"), Scalar(1)>>,
      <<FieldName("a"), ValueFn("isZero")>>,
      <<FieldFn("notA"), Scalar(Undefined)>> }

OrWhereArgs ==
    { <<FieldName("b"), Scalar(1)>>,
      <<FieldName("b"), Array(<<0>>)>>,
      <<FieldFn("aAndB"), Scalar(Undefined)>> }

WhereInsert ==
    /\ ChainLen(query) = 0
    /\ \E r \in UserRecords : Insert(<<r>>)

NextWhere ==
    \/ NewQuery("users")
    \/ WhereInsert
    \/ \E w \in WhereArgs : Where(w[1], w[2])
    \/ \E w \in OrWhereArgs : OrWhere(w[1], w[2])
    \/ WhereIn("id", <<1, 3>>)
    \/ Get
    \/ \E ids \in IdArgs : Find(ids)

SpecWhere == Init /\ [][NextWhere]_vars

\* the query of the last call carries where clauses and nothing else
OnlyWheres(q) ==
    q.orders = <<>> /\ q.take = Null /\ q.skip = 0 /\ q.eagerLoad = <<>>

\* C1: filterWhere keeps a model iff there are no clauses, or the and-group
\* is non-empty and every and-clause matches, or the or-group is non-empty
\* and some or-clause matches.
C1_WhereGroupsAreDisjunctive ==
    (last.op = "get" /\ OnlyWheres(last.query)) =>
        LET ws == last.query.wheres
            ands == {i \in DOMAIN ws : ws[i].boolean = "and"}
            ors == {i \in DOMAIN ws : ws[i].boolean = "or"}
            Keeps(m) ==
                \/ ws = <<>>
                \/ ands # {} /\ \A i \in ands : whereComparator(m, ws[i])
                \/ ors # {} /\ \E i \in ors : whereComparator(m, ws[i])
        IN  last.result = SelectSeq(all(last.pre, last.query), Keeps)

\* C1's case: where('a', 1).orWhere('b', 1) keeps {a: 0, b: 1} and drops
\* {a: 0, b: 0}
C1_Witness ==
    /\ last.op = "get"
    /\ last.query.wheres =
           << [field |-> FieldName("a"), value |-> Scalar(1), boolean |-> "and"],
              [field |-> FieldName("b"), value |-> Scalar(1), boolean |-> "or"] >>
    /\ last.pre["users"] =
           << [key |-> 1, rec |-> [id |-> 1, a |-> 0, b |-> 1]],
              [key |-> 2, rec |-> [id |-> 2, a |-> 0, b |-> 0]] >>
    /\ Len(last.result) = 1
    /\ last.result[1].attrs = [id |-> 1, a |-> 0, b |-> 1]

\* a Query object no builder call has touched
IsFresh(q) == q = NewQueryObject(q.model)

\* C7: on a fresh query, find(ids[]) returns the models of the requested ids
\* the store holds, the others left out, and find(id) the model of that
\* primary key or the null item; neither raises, neither changes the store.
C7_FindOmitsMissingIds ==
    (last.op = "find" /\ IsFresh(last.query)) =>
        LET entity == last.query.model
            records == last.pre[entity]
        IN  /\ ~last.raised
            /\ store = last.pre
            /\ last.arg.k = "array" =>
                   LET present == SortedSeq(MapKeys(records)
                                            \cap Range(last.arg.v))
                   IN  last.result =
                           [i \in DOMAIN present |->
                               NewInstance(entity, MapGet(records, present[i]))]
            /\ last.arg.k = "val" =>
                   last.result =
                       IF MapHas(records, last.arg.v)
                       THEN NewInstance(entity, MapGet(records, last.arg.v))
                       ELSE NullItem

\* C7's case: find([1, 2, 3]) on a store that holds users 1 and 2 and no
\* user 3 returns the two
C7_Witness ==
    /\ last.op = "find"
    /\ IsFresh(last.query)
    /\ last.arg = Array(<<1, 2, 3>>)
    /\ MapKeys(last.pre["users"]) = {1, 2}
    /\ Len(last.result) = 2
    /\ ~last.raised

---------------------------------------------------------------------------
(* Revival of user schemas with nested posts and friend, over users and    *)
(* posts.                                                                  *)

Entry(key, value) == [key |-> key, value |-> value]

\* a user element without relation keys; its payload may differ from the store
LeafUser(id, a) == << Entry("id", SchemaVal(id)), Entry("a", SchemaVal(a)) >>

PostElement(id) == << Entry("id", SchemaVal(id)) >>

\* what the posts key of a user element may hold
PostsValues ==
    { SchemaNull, SchemaMany(<<>>), SchemaMany(<<PostElement(1)>>),
      SchemaMany(<<PostElement(MaxId + 1), PostElement(1)>>) }

\* what the friend key of a user element may hold
FriendValues == { SchemaNull, SchemaOne(LeafUser(1, 0)), SchemaOne(LeafUser(2, 1)) }

\* user elements: id and payload, then any of the relation keys in either order
UserElements ==
    LET heads == {LeafUser(id, a) : id \in 1..(MaxId + 1), a \in Vals}
        tails == {<<>>}
                 \cup {<<Entry("posts", p)>> : p \in PostsValues}
                 \cup {<<Entry("friend", f)>> : f \in FriendValues}
                 \cup {<<Entry("posts", p), Entry("friend", f)>> :
                          p \in PostsValues, f \in FriendValues}
                 \cup {<<Entry("friend", f), Entry("posts", p)>> :
                          p \in PostsValues, f \in FriendValues}
    IN  {h \o t : h \in heads, t \in tails}

\* the schema arrays reviveMany is given: up to MaxSchemas user elements
\* without relation keys
UserElementArrays ==
    UNION {[1..n -> {LeafUser(id, a) : id \in 1..(MaxId + 1), a \in Vals}] :
              n \in 0..MaxSchemas}

ReviveInsert ==
    \/ /\ query.model = "users"
       /\ \E r \in [id : Ids, a : Vals, b : {0}] : Insert(<<r>>)
    \/ /\ query.model = "posts"
       /\ \E r \in [id : Ids, userId : {1}] : Insert(<<r>>)

NextRevive ==
    \/ \E e \in {"users", "posts"} : NewQuery(e)
    \/ ReviveInsert
    \/ /\ query.model = "users"
       /\ \E schema \in UserElements : ReviveOne(schema)
    \/ /\ query.model = "users"
       /\ \E schema \in UserElementArrays : ReviveMany(schema)

SpecRevive == Init /\ [][NextRevive]_vars

\* the store holds a record under the schema element's index id
InStore(st, entity, schema) ==
    MapHas(st[entity], GetIndexId(entity, SchemaRecord(schema)))

\* the record the store holds under the schema element's index id
StoredFor(st, entity, schema) ==
    MapGet(st[entity], GetIndexId(entity, SchemaRecord(schema)))

\* C8: reviveOne(schema) returns the null item when the store holds no record
\* under the schema's index id and otherwise a model with the attributes of
\* the stored record, whatever the schema's payload says; reviveMany(schemas)
\* returns, in schema order, the revived models of the elements the store
\* still holds and leaves the others out; neither raises.
C8_RevivalReadsTheStore ==
    /\ last.op = "reviveOne" =>
           LET entity == last.query.model
           IN  /\ ~last.raised
               /\ store = last.pre
               /\ ~InStore(last.pre, entity, last.arg) =>
                      last.result = NullItem
               /\ InStore(last.pre, entity, last.arg) =>
                      /\ last.result # NullItem
                      /\ GetAttributes(last.result)
                             = StoredFor(last.pre, entity, last.arg)
    /\ last.op = "reviveMany" =>
           LET entity == last.query.model
               Held(schema) == InStore(last.pre, entity, schema)
               held == SelectSeq(last.arg, Held)
           IN  /\ ~last.raised
               /\ store = last.pre
               /\ Len(last.result) = Len(held)
               /\ \A i \in DOMAIN held :
                      /\ last.result[i] # NullItem
                      /\ GetAttributes(last.result[i])
                             = StoredFor(last.pre, entity, held[i])

\* C8's case: reviveMany of an element the store no longer holds followed by
\* one it holds with another value of a than the payload's
C8_Witness ==
    /\ last.op = "reviveMany"
    /\ last.arg = << LeafUser(MaxId + 1, 0), LeafUser(1, 0) >>
    /\ MapHas(last.pre["users"], 1)
    /\ MapGet(last.pre["users"], 1)["a"] = 1
    /\ Len(last.result) = 1
    /\ GetAttributes(last.result[1])["a"] = 1

\* the schema's value under a relation key carries a related schema: a nested
\* element or an array of elements
CarriesSchema(value) == value.k \in {"one", "many"}

\* what reviving the related schema under a relation key gives: reviveMany of
\* the relation's sub-query for an array, reviveOne otherwise
RevivedRelation(st, entity, entry) ==
    LET sub == newQueryForRelation(GetRelation(entity, entry.key))
    IN  IF entry.value.k = "many"
        THEN reviveMany(st, sub, entry.value.v)
        ELSE reviveOne(st, sub, entry.value.v)

\* C11: reviveOne(schema) of an element whose record is in the store returns
\* a model on which every key of the schema that is a relation attribute and
\* carries a related schema is set, to reviveMany of the array or reviveOne of
\* the element it carries, whatever the schema's other keys hold and in
\* whatever order the keys come, a null under another relation key included.
C11_EveryRelationKeyRevived ==
    (/\ last.op = "reviveOne"
     /\ InStore(last.pre, last.query.model, last.arg))
    => /\ last.result # NullItem
       /\ \A i \in DOMAIN last.arg :
              (/\ IsRelation(last.query.model, last.arg[i].key)
               /\ CarriesSchema(last.arg[i].value))
              => /\ last.arg[i].key \in DOMAIN last.result.rels
                 /\ last.result.rels[last.arg[i].key]
                        = RevivedRelation(last.pre, last.query.model,
                                          last.arg[i])

---------------------------------------------------------------------------
(* Eager loading over users and posts: users.posts, users.friend and       *)
(* posts.author make a cyclic relation graph.                              *)

\* the callbacks with() is given
Callbacks == { NoopCallback, WhereCallback("id", 1) }

EagerInsert ==
    /\ ChainLen(query) = 0
    /\ \/ /\ query.model = "users"
          /\ \E r \in [id : Ids, a : {0}, b : Ids] : Insert(<<r>>)
       \/ /\ query.model = "posts"
          /\ \E r \in PostRecords : Insert(<<r>>)

EagerWith ==
    \E name \in {"posts", "friend", "author"}, callback \in Callbacks :
        With(name, callback)

EagerWithAllRecursive ==
    /\ ChainLen(query) = 0
    /\ \E depth \in 0..MaxDepth : WithAllRecursive(depth)

NextEager ==
    \/ \E e \in {"users", "posts"} : NewQuery(e)
    \/ EagerInsert
    \/ EagerWith
    \/ EagerWithAllRecursive
    \/ Get

SpecEager == Init /\ [][NextEager]_vars

\* the relation names of a model
RelationNames(entity) == Range(RelationFields(entity))

\* C9: for the same store, registering two distinct relations in either
\* order yields the same models with the same populated relation attributes,
\* and registering a relation again with the same callback changes nothing.
C9_EagerLoadOrderIndependent ==
    last.op = "get" =>
        LET base == [last.query EXCEPT !.eagerLoad = <<>>]
            names == RelationNames(base.model)
            loaded == last.query.eagerLoad
        IN  /\ \A n1, n2 \in names : \A c1, c2 \in Callbacks :
                   n1 # n2 =>
                       /\ get(last.pre, with(with(base, n1, c1), n2, c2))
                              = get(last.pre, with(with(base, n2, c2), n1, c1))
                       /\ get(last.pre,
                              with(with(with(base, n1, c1), n2, c2), n1, c1))
                              = get(last.pre, with(with(base, n1, c1), n2, c2))
            /\ Len(loaded) = 2 =>
                   last.result =
                       get(last.pre,
                           with(with(base, loaded[2].name, loaded[2].callback),
                                loaded[1].name, loaded[1].callback))
            /\ \A i \in DOMAIN loaded :
                   last.result =
                       get(last.pre,
                           with(last.query, loaded[i].name, loaded[i].callback))
            /\ \A i \in DOMAIN last.result :
                   DOMAIN last.result[i].rels =
                       {loaded[j].name : j \in DOMAIN loaded}

\* C9's case: with('posts').with('friend').get() on users, a user coming
\* back with a post and a friend
C9_Witness ==
    /\ last.op = "get"
    /\ last.query.model = "users"
    /\ Len(last.query.eagerLoad) = 2
    /\ last.query.eagerLoad[1].name = "posts"
    /\ last.query.eagerLoad[2].name = "friend"
    /\ \E i \in DOMAIN last.result :
           /\ last.result[i].rels["posts"] # <<>>
           /\ last.result[i].rels["friend"] # NullItem

\* the number of relation levels populated below a model: 0 when no relation
\* attribute of it is set
RECURSIVE RelDepth(_)
RECURSIVE RelDepthOfAll(_)
RelDepthOfAll(models) ==
    IF models = <<>> THEN 0
    ELSE Max(RelDepth(models[1]), RelDepthOfAll(Tail(models)))

RelDepth(model) ==
    IF model = NullItem \/ DOMAIN model.rels = {} THEN 0
    ELSE LET Below(name) ==
                 IF GetRelation(model.entity, name).kind = "hasMany"
                 THEN RelDepthOfAll(model.rels[name])
                 ELSE RelDepth(model.rels[name])
             deepest == CHOOSE n \in DOMAIN model.rels :
                            \A o \in DOMAIN model.rels : Below(o) <= Below(n)
         IN  1 + Below(deepest)

\* the depth withAllRecursive was called with to build the query, when it was
RecursiveDepths(q) ==
    {d \in 0..MaxDepth :
        /\ q.eagerLoad # <<>>
        /\ q.eagerLoad = withAllRecursive(NewQueryObject(q.model), d).eagerLoad}

\* C10: get() on a query built by withAllRecursive(depth) returns, on a cyclic
\* relation graph too, models whose relations are populated to at most depth
\* levels of nesting below the top-level relations withAll registers (depth + 1
\* relation levels in all); every top-level relation is loaded, and at depth 0
\* the callback registers no further eager load on the sub-query.
C10_RecursionStopsAtDepth ==
    last.op = "get" =>
        \A d \in RecursiveDepths(last.query) :
            /\ RelDepthOfAll(last.result) <= d + 1
            /\ \A i \in DOMAIN last.result :
                   DOMAIN last.result[i].rels
                       = RelationNames(last.query.model)
            /\ \A name \in RelationNames(last.query.model) :
                   LET sub == ApplyCallback(RecursiveCallback(d),
                                  newQueryForRelation(
                                      GetRelation(last.query.model, name)))
                   IN  IF d = 0 THEN sub.eagerLoad = <<>>
                       ELSE sub.eagerLoad =
                                withAllRecursive(NewQueryObject(sub.model),
                                                 d - 1).eagerLoad

\* C10's case: withAllRecursive(1).get() on users whose posts point back at
\* them: two relation levels come back, the second level's relations unset
C10_Witness ==
    /\ last.op = "get"
    /\ last.query.model = "users"
    /\ 1 \in RecursiveDepths(last.query)
    /\ RelDepthOfAll(last.result) = 2
    /\ \E i \in DOMAIN last.result :
           /\ last.result[i].rels["posts"] # <<>>
           /\ last.result[i].rels["posts"][1].rels["author"] # NullItem
           /\ last.result[i].rels["posts"][1].rels["author"].rels
                  = NoRelations

====
